---- MODULE Spec2Model ----
(***************************************************************************)
(* Claims tracking application (Django): identifier allocation for Client  *)
(* and Shipment ("claim") rows, the per-client-per-day client reference,   *)
(* and the derived fields computed by Shipment.save.                       *)
(*                                                                         *)
(* Strings are sequences of one-character strings, so that formatting      *)
(* (f"CL{n:05d}"), slicing (client_id[2:]), int(), re.sub, split,          *)
(* startswith and endswith are computed the way the code computes them.    *)
(* Optional numbers (nullable DecimalField) are <<>> for None and <<n>>    *)
(* for a value n (whole currency units).                                   *)
(***************************************************************************)
EXTENDS Integers, Sequences, FiniteSets, TLC

\* ------------------------------------------------------------------ bounds

\* Rows ever inserted into the Client table (caps the AutoField counter).
MaxClients == 2
\* Rows ever inserted into the Shipment table (caps the AutoField counter).
MaxShipments == 3
\* Calendar days the clock can show.
MaxDay == 2
\* Data rows of an imported sheet.
MaxRows == 1
\* Rows ever inserted into the Shipment table where stored claims are edited.
MaxEdited == 2
MaxSheetRows == 3
\* Thread objects a process creates.
MaxThreads == 2
\* Days the backup system is followed over.
MaxBackupDay == 8

\* ----------------------------------------------------------- program constants

CLIENT_ID_WIDTH == 5
CLAIM_ID_WIDTH == 6
CLEAN_NAME_LEN == 15
\* (current_time - last_backup_date).days >= 7
BACKUP_DAYS == 7

\* ------------------------------------------------------------------ strings

DigitChars == <<"0", "1", "2", "3", "4", "5", "6", "7", "8", "9">>
UpperChars == <<"A", "B", "C", "D", "E", "F", "G", "H", "I", "J", "K", "L", "M",
                "N", "O", "P", "Q", "R", "S", "T", "U", "V", "W", "X", "Y", "Z">>
LowerChars == <<"a", "b", "c", "d", "e", "f", "g", "h", "i", "j", "k", "l", "m",
                "n", "o", "p", "q", "r", "s", "t", "u", "v", "w", "x", "y", "z">>

Range(s) == {s[i] : i \in DOMAIN s}

Digits == Range(DigitChars)
Alnums == Range(DigitChars) \cup Range(UpperChars) \cup Range(LowerChars)

IsDigit(c) == c \in Digits
IsAlnum(c) == c \in Alnums

DigitValue(c) == (CHOOSE i \in DOMAIN DigitChars : DigitChars[i] = c) - 1

ToLower(c) ==
    IF c \in Range(UpperChars)
    THEN LowerChars[CHOOSE i \in DOMAIN UpperChars : UpperChars[i] = c]
    ELSE c

\* str.lower(), as the comparison behind name__iexact
Lower(s) == [i \in DOMAIN s |-> ToLower(s[i])]

\* str(n) for n >= 0
RECURSIVE Str(_)
Str(n) == IF n < 10 THEN <<DigitChars[n + 1]>>
          ELSE Str(n \div 10) \o <<DigitChars[(n % 10) + 1]>>

\* f"{n:0{w}d}": zero-padded to at least w digits, never truncated
ZeroPad(n, w) ==
    LET s == Str(n)
    IN  IF Len(s) >= w THEN s
        ELSE [i \in 1..w |-> IF i <= w - Len(s) THEN "0" ELSE s[i - (w - Len(s))]]

ValueError == -1

\* int(s) for the strings the program builds: digits only, else ValueError
RECURSIVE IntOf(_)
IntOf(s) ==
    IF s = <<>> \/ \E i \in DOMAIN s : ~IsDigit(s[i]) THEN ValueError
    ELSE IF Len(s) = 1 THEN DigitValue(s[1])
    ELSE 10 * IntOf(SubSeq(s, 1, Len(s) - 1)) + DigitValue(s[Len(s)])

\* s[k:] with k characters dropped
Drop(s, k) == SubSeq(s, k + 1, Len(s))

StartsWith(s, p) == Len(s) >= Len(p) /\ SubSeq(s, 1, Len(p)) = p
EndsWith(s, p) == Len(s) >= Len(p) /\ SubSeq(s, Len(s) - Len(p) + 1, Len(s)) = p

\* s.split(sep) for a one-character separator
RECURSIVE Split(_, _)
Split(s, sep) ==
    IF \A i \in DOMAIN s : s[i] # sep THEN <<s>>
    ELSE LET k == CHOOSE i \in DOMAIN s : s[i] = sep /\ \A j \in 1..(i - 1) : s[j] # sep
         IN  <<SubSeq(s, 1, k - 1)>> \o Split(SubSeq(s, k + 1, Len(s)), sep)

\* re.sub(r'[^a-zA-Z0-9]', '', s)
RECURSIVE StripNonAlnum(_)
StripNonAlnum(s) ==
    IF s = <<>> THEN <<>>
    ELSE (IF IsAlnum(s[1]) THEN <<s[1]>> ELSE <<>>) \o StripNonAlnum(Tail(s))

\* s[:k]
Take(s, k) == SubSeq(s, 1, IF Len(s) < k THEN Len(s) ELSE k)

\* ------------------------------------------------------------------- inputs

None == <<>>
NoStatus == "None"

\* Client names a user can type (ClientForm.name, ShipmentForm.client_name,
\* the import sheet's Claimant column).
NAME_AB == <<"A", " ", "b">>
\* equal to NAME_AB under name__iexact
NAME_AB_UPPER == <<"A", " ", "B">>
\* a different name whose sanitized form equals that of NAME_AB
NAME_AB_JOINED == <<"A", "b">>
\* a name with no letter or digit in common with NAME_AB
NAME_CD == <<"C", "d">>
\* more than 15 letters and digits
NAME_LONG == <<"B", "e", "t", "a", " ", "L", "o", "g", "i", "s", "t", "i", "c", "s",
               " ", "H", "o", "l", "d", "i", "n", "g", "s">>

\* Claim numbers a user can type (Shipment.Claim_No): "S1", "S2", ... and one
\* that does not start with 'S'
ClaimNo(i) == <<"S">> \o Str(i)
CLAIM_X1 == <<"X", "1">>

\* datetime.date of day d of the model's clock
DateOf(d) == [year |-> 2025, month |-> 6, day |-> d]

\* date.strftime("%Y%m%d")
strftime(dt) == ZeroPad(dt.year, 4) \o ZeroPad(dt.month, 2) \o ZeroPad(dt.day, 2)

\* calendar.monthrange(year, month)[1]
DaysInMonth(year, month) ==
    IF month = 2
    THEN IF year % 4 = 0 /\ (year % 100 # 0 \/ year % 400 = 0) THEN 29 ELSE 28
    ELSE IF month \in {4, 6, 9, 11} THEN 30 ELSE 31

\* The fields of s under the two formats the import tries, "%Y-%m-%d" and
\* "%d/%m/%Y": the text of the year, the month and the day
strptime_fields(s, fmt) ==
    LET iso == fmt = "%Y-%m-%d"
        parts == Split(s, IF iso THEN "-" ELSE "/")
    IN  IF Len(parts) # 3 THEN <<>>
        ELSE <<parts[IF iso THEN 1 ELSE 3], parts[2], parts[IF iso THEN 3 ELSE 1]>>

\* datetime.datetime.strptime(s, fmt) raises ValueError
strptime_raises(s, fmt) ==
    LET f == strptime_fields(s, fmt)
    IN  ~(/\ f # <<>>
          /\ Len(f[1]) = 4 /\ IntOf(f[1]) >= 1
          /\ Len(f[2]) \in 1..2 /\ IntOf(f[2]) \in 1..12
          /\ Len(f[3]) \in 1..2
          /\ IntOf(f[3]) \in 1..DaysInMonth(IntOf(f[1]), IntOf(f[2])))

\* datetime.datetime.strptime(s, fmt).date() when it does not raise
strptime(s, fmt) ==
    LET f == strptime_fields(s, fmt)
    IN  [year |-> IntOf(f[1]), month |-> IntOf(f[2]), day |-> IntOf(f[3])]

\* Cells of the sheet's date columns: empty, a date, or text
EMPTY_CELL == [type |-> "NoneType", value |-> <<>>]
DATE_CELL == [type |-> "date", value |-> DateOf(1)]
TEXT_ISO == [type |-> "str", value |-> <<"2", "0", "2", "5", "-", "0", "6", "-", "0", "1">>]
TEXT_DMY == [type |-> "str", value |-> <<"0", "1", "/", "0", "6", "/", "2", "0", "2", "5">>]
\* text that is a date in neither format
TEXT_NO_DATE == [type |-> "str", value |-> <<"3", "1", "/", "0", "6", "/", "2", "0", "2", "5">>]

\* -------------------------------------------------------------------- state

VARIABLES
    clients,            \* Client table: pk -> [client_id, name]
    shipments,          \* Shipment table: pk -> row
    nextClientPk,       \* Client.id AutoField counter
    nextShipmentPk,     \* Shipment.id AutoField counter
    today,              \* date.today(), as a day number
    req,                \* per worker: the request it is handling and its locals
    issuedClientIds,    \* every client_id ever stored by an INSERT
    issuedClaimIds,     \* every claim_id ever stored by an INSERT
    backup              \* the backup system: the globals backup_thread and
                        \* last_backup_date, the threads, last_backup.txt

vars == <<clients, shipments, nextClientPk, nextShipmentPk, today, req,
          issuedClientIds, issuedClaimIds, backup>>

\* The state as one value s, which the operations below map to the next one
World ==
    [clients |-> clients, shipments |-> shipments, nextClientPk |-> nextClientPk,
     nextShipmentPk |-> nextShipmentPk, today |-> today, req |-> req,
     issuedClientIds |-> issuedClientIds, issuedClaimIds |-> issuedClaimIds]

\* s is the next state
Becomes(s) ==
    /\ clients' = s.clients
    /\ shipments' = s.shipments
    /\ nextClientPk' = s.nextClientPk
    /\ nextShipmentPk' = s.nextShipmentPk
    /\ today' = s.today
    /\ req' = s.req
    /\ issuedClientIds' = s.issuedClientIds
    /\ issuedClaimIds' = s.issuedClaimIds
    /\ UNCHANGED backup

\* A Shipment instance in memory; pk = 0 is an unsaved instance (pk is None).
NewShipment ==
    [pk |-> 0, Claim_No |-> <<>>, claim_id |-> <<>>, client_reference |-> <<>>,
     client |-> 0, Claimed_Amount |-> None, Amount_Paid_By_Carrier |-> None,
     Amount_Paid_By_Awa |-> None, Amount_Paid_By_Insurance |-> None,
     Total_Savings |-> None, Settlement_Status |-> NoStatus,
     Intend_Claim_Date |-> None, created_at |-> 0]

\* The stored columns of an instance
RowOf(inst) ==
    [Claim_No |-> inst.Claim_No, claim_id |-> inst.claim_id,
     client_reference |-> inst.client_reference, client |-> inst.client,
     Claimed_Amount |-> inst.Claimed_Amount,
     Amount_Paid_By_Carrier |-> inst.Amount_Paid_By_Carrier,
     Amount_Paid_By_Awa |-> inst.Amount_Paid_By_Awa,
     Amount_Paid_By_Insurance |-> inst.Amount_Paid_By_Insurance,
     Total_Savings |-> inst.Total_Savings,
     Settlement_Status |-> inst.Settlement_Status,
     Intend_Claim_Date |-> inst.Intend_Claim_Date,
     created_at |-> inst.created_at]

\* The instance of a stored row: get_object_or_404(Shipment, pk=pk)
InstanceOf(row, pk) ==
    [pk |-> pk, Claim_No |-> row.Claim_No, claim_id |-> row.claim_id,
     client_reference |-> row.client_reference, client |-> row.client,
     Claimed_Amount |-> row.Claimed_Amount,
     Amount_Paid_By_Carrier |-> row.Amount_Paid_By_Carrier,
     Amount_Paid_By_Awa |-> row.Amount_Paid_By_Awa,
     Amount_Paid_By_Insurance |-> row.Amount_Paid_By_Insurance,
     Total_Savings |-> row.Total_Savings,
     Settlement_Status |-> row.Settlement_Status,
     Intend_Claim_Date |-> row.Intend_Claim_Date,
     created_at |-> row.created_at]

\* The worker threads of the server
Workers == {1, 2}

\* A worker with no request in hand
Idle ==
    [op |-> "idle", pc |-> "idle", site |-> "", client_name |-> <<>>,
     new_id |-> <<>>, client |-> [pk |-> 0, name |-> <<>>],
     inst |-> NewShipment, rows |-> <<>>, unread |-> 0,
     skipped_entries |-> <<>>, created_entries |-> 0, error_entries |-> <<>>]

\* The backup system of a process that has started no thread, with no
\* last_backup.txt on disk. backup_thread is None (0) or the number of a
\* thread; a thread is at a line of weekly_backup_thread (pc) and has its
\* local current_time; caller is where each caller of start_backup_thread is.
NoBackup ==
    [backup_thread |-> 0, last_backup_date |-> None, marker |-> None,
     threads |-> <<>>, caller |-> [w \in Workers |-> "idle"]]

Init ==
    /\ clients = <<>>
    /\ shipments = <<>>
    /\ nextClientPk = 1
    /\ nextShipmentPk = 1
    /\ today = 1
    /\ req = [w \in Workers |-> Idle]
    /\ issuedClientIds = {}
    /\ issuedClaimIds = {}
    /\ backup = NoBackup

\* the row order_by('id').first() reads: the oldest one
Oldest(S) == CHOOSE x \in S : \A y \in S : x <= y

\* largest element of a non-empty set of integers
Max(S) == CHOOSE x \in S : \A y \in S : y <= x

\* ------------------------------------------------------------ the allocator

\* What an allocator call yields when int() raises and nothing catches it
Raised == <<"ValueError">>

\* get_next_client_id adding 2 to the last number
get_next_client_id_plus2(cl) ==
    IF DOMAIN cl # {}
    THEN LET last_id == IntOf(Drop(cl[Max(DOMAIN cl)].client_id, 2))
         IN  IF last_id = ValueError THEN Raised
             ELSE <<"C", "L">> \o ZeroPad(last_id + 2, CLIENT_ID_WIDTH)
    ELSE <<"C", "L", "0", "0", "0", "0", "1">>

\* ClientManager.get_next_client_id, on the Client table cl
get_next_client_id(cl) ==
    IF DOMAIN cl # {}
    THEN LET last_client == cl[Max(DOMAIN cl)]
             last_id == IntOf(Drop(last_client.client_id, 2))
         IN  IF last_id = ValueError THEN Raised
             ELSE <<"C", "L">> \o ZeroPad(last_id + 1, CLIENT_ID_WIDTH)
    ELSE <<"C", "L", "0", "0", "0", "0", "1">>

\* get_next_claim_id padding the number to 5 digits
get_next_claim_id_width5(sh) ==
    IF DOMAIN sh # {} /\ sh[Max(DOMAIN sh)].claim_id # <<>>
          /\ IntOf(Drop(sh[Max(DOMAIN sh)].claim_id, 3)) # ValueError
    THEN <<"C", "L", "M">>
            \o ZeroPad(IntOf(Drop(sh[Max(DOMAIN sh)].claim_id, 3)) + 1, 5)
    ELSE <<"C", "L", "M", "0", "0", "0", "0", "0", "1">>

\* ShipmentManager.get_next_claim_id, on the Shipment table sh
get_next_claim_id(sh) ==
    IF DOMAIN sh # {} /\ sh[Max(DOMAIN sh)].claim_id # <<>>
          /\ IntOf(Drop(sh[Max(DOMAIN sh)].claim_id, 3)) # ValueError
    THEN LET last_shipment == sh[Max(DOMAIN sh)]
             last_id == IntOf(Drop(last_shipment.claim_id, 3))
         IN  <<"C", "L", "M">> \o ZeroPad(last_id + 1, CLAIM_ID_WIDTH)
    ELSE <<"C", "L", "M", "0", "0", "0", "0", "0", "1">>

\* clean_name of Client.get_next_client_reference
clean_name(name) == Take(StripNonAlnum(name), CLEAN_NAME_LEN)

\* existing_shipments over the rows of every client
existing_shipments_any_client(sh, client, cname, day) ==
    {pk \in DOMAIN sh :
        /\ StartsWith(sh[pk].client_reference, cname \o <<"-">>)
        /\ EndsWith(sh[pk].client_reference, <<"-">> \o day)}

\* The rows get_next_client_reference looks at: this client's, whose reference
\* starts with "<clean_name>-" and ends with "-<today>"
existing_shipments(sh, client, cname, day) ==
    {pk \in DOMAIN sh :
        /\ sh[pk].client = client
        /\ StartsWith(sh[pk].client_reference, cname \o <<"-">>)
        /\ EndsWith(sh[pk].client_reference, <<"-">> \o day)}

\* number = int(parts[-2]) of one reference; ValueError when it does not parse
ref_number(reference) ==
    LET parts == Split(reference, "-")
    IN  IF Len(parts) >= 3 THEN IntOf(parts[Len(parts) - 1]) ELSE ValueError

\* The loop of get_next_client_reference over the rows in descending id, from
\* the rows not yet visited: the first row whose number is >= next_number (1)
\* sets next_number and breaks; rows that do not parse are passed over.
RECURSIVE scan_next_number(_, _)
scan_next_number(sh, rows) ==
    IF rows = {} THEN 1
    ELSE LET pk == Max(rows)
             number == ref_number(sh[pk].client_reference)
         IN  IF number # ValueError /\ number >= 1 THEN number + 1
             ELSE scan_next_number(sh, rows \ {pk})

\* Client.get_next_client_reference of the Client instance (pk, name), on day d
get_next_client_reference(sh, pk, name, d) ==
    LET day == strftime(DateOf(d))
        cname == clean_name(name)
        next_number == scan_next_number(sh, existing_shipments(sh, pk, cname, day))
    IN  cname \o <<"-">> \o Str(next_number) \o <<"-">> \o day

\* ------------------------------------------------------- derived fields

\* x or 0
OrZero(x) == IF x = None THEN 0 ELSE x[1]

\* Truthy taking every number, 0 included, for true
Truthy_is_not_None(x) == x # None

\* truth value of an optional number: None and 0 are falsy
Truthy(x) == x # None /\ x[1] # 0

\* Shipment.total_amount_paid
total_amount_paid(inst) ==
    OrZero(inst.Amount_Paid_By_Carrier) + OrZero(inst.Amount_Paid_By_Awa)
        + OrZero(inst.Amount_Paid_By_Insurance)

\* save_total_savings without max(0, ...)
save_total_savings_unclipped(inst) ==
    IF inst.Total_Savings = None /\ OrZero(inst.Claimed_Amount) > 0
    THEN <<OrZero(inst.Claimed_Amount) - total_amount_paid(inst)>>
    ELSE inst.Total_Savings

\* Shipment.save: "Auto-calculate total savings if not provided"
save_total_savings(inst) ==
    LET claimed == OrZero(inst.Claimed_Amount)
        paid == total_amount_paid(inst)
    IN  IF inst.Total_Savings = None /\ claimed > 0
        THEN <<IF claimed - paid > 0 THEN claimed - paid ELSE 0>>
        ELSE inst.Total_Savings

\* save_settlement_status with no PARTIAL: a claim paid below its value is
\* NOT_SETTLED
save_settlement_status_without_partial(inst) ==
    IF Truthy(inst.Claimed_Amount) /\ total_amount_paid(inst) # 0
    THEN IF total_amount_paid(inst) >= inst.Claimed_Amount[1] THEN "SETTLED"
         ELSE "NOT_SETTLED"
    ELSE inst.Settlement_Status

\* save_settlement_status calling a claim settled only when it is overpaid
save_settlement_status_strict(inst) ==
    IF Truthy(inst.Claimed_Amount) /\ total_amount_paid(inst) # 0
    THEN IF total_amount_paid(inst) > inst.Claimed_Amount[1] THEN "SETTLED"
         ELSE IF total_amount_paid(inst) > 0 THEN "PARTIAL"
         ELSE "NOT_SETTLED"
    ELSE inst.Settlement_Status

\* Shipment.save: "Auto-update settlement status based on payments"
save_settlement_status(inst) ==
    IF Truthy(inst.Claimed_Amount) /\ total_amount_paid(inst) # 0
    THEN IF total_amount_paid(inst) >= inst.Claimed_Amount[1] THEN "SETTLED"
         ELSE IF total_amount_paid(inst) > 0 THEN "PARTIAL"
         ELSE "NOT_SETTLED"
    ELSE inst.Settlement_Status

\* The instance as Shipment.save hands it to super().save()
save_derived(inst) ==
    [inst EXCEPT !.Total_Savings = save_total_savings(inst),
                 !.Settlement_Status = save_settlement_status(inst)]

\* --------------------------------------------------------- request steps
\*
\* A worker handles one request at a time. A request is a sequence of steps,
\* one per database statement; each step maps the state s to the next state.
\* P is the configuration of a specification:
\*   [W: the workers that take requests,
\*    names, otherClaimNos, amts: what users type (<<>> is a field left blank),
\*    sheetClaimNos, dates, savings, settlements: the import sheet's columns
\*        0, 4, 12, 13,
\*    maxC, maxS, maxD, maxRows: the bounds]

SetReq(s, w, r) == [s EXCEPT !.req[w] = r]

\* process_excel_data goes on after a row, with the lists r of what it has
\* skipped, created and failed on: to the next row of the sheet (to reading
\* it, when iter_rows has not yielded it yet), or to returning the lists
NextRow(s, w, r) ==
    LET next == [Idle EXCEPT !.op = "import", !.unread = r.unread,
                             !.skipped_entries = r.skipped_entries,
                             !.created_entries = r.created_entries,
                             !.error_entries = r.error_entries]
    IN  SetReq(s, w, IF Len(r.rows) > 1
                     THEN [next EXCEPT !.pc = "row", !.rows = Tail(r.rows)]
                     ELSE IF r.unread > 0 THEN [next EXCEPT !.pc = "iter_rows"]
                     ELSE [next EXCEPT !.pc = "report"])

\* Finish without created_entries += 1
Finish_uncounted(s, w) ==
    IF s.req[w].op = "import" THEN NextRow(s, w, s.req[w])
    ELSE SetReq(s, w, Idle)

\* The request of worker w has ended, or its import row has been stored:
\* created_entries += 1
Finish(s, w) ==
    LET r == s.req[w]
    IN  IF r.op = "import"
        THEN NextRow(s, w, [r EXCEPT !.created_entries = r.created_entries + 1])
        ELSE SetReq(s, w, Idle)

\* An exception that no handler inside the loop catches: it ends the request
Raise_out_of_loop(s, w, e) == SetReq(s, w, Idle)

\* Exception e is raised in the request of worker w. The views answer it with
\* a message or an error page; process_excel_data catches it for the row:
\* error_entries.append(f'Row with Claimant {claimant}: {str(e)}')
Raise(s, w, e) ==
    LET r == s.req[w]
    IN  IF r.op = "import"
        THEN NextRow(s, w, [r EXCEPT !.error_entries =
                               Append(r.error_entries,
                                      [claimant |-> r.client_name, error |-> e])])
        ELSE SetReq(s, w, Idle)

\* import_shipments has the lists and leaves its messages: the request ends
report(s, w) == SetReq(s, w, Idle)

\* SavePc asking for a client reference on every save
SavePc_reference_every_save(inst) ==
    IF inst.claim_id = <<>> THEN "save_claim_id"
    ELSE IF inst.client # 0 THEN "save_client_reference"
    ELSE "save_write"

\* Where Shipment.save starts for an instance: the allocator calls it needs
SavePc(inst) ==
    IF inst.claim_id = <<>> THEN "save_claim_id"
    ELSE IF inst.client_reference = <<>> /\ inst.client # 0 THEN "save_client_reference"
    ELSE "save_write"

\* Client.objects.get_or_create has returned the Client (pk, name): the view's
\* call is followed by ShipmentForm.save's own call; that one, and the
\* import's, by instance.client = client and instance.save()
AfterGetOrCreate(s, w, pk, name) ==
    IF s.req[w].site = "view"
    THEN SetReq(s, w, [s.req[w] EXCEPT !.pc = "goc_get", !.site = "form",
                                       !.new_id = <<>>])
    ELSE LET inst == [s.req[w].inst EXCEPT !.client = pk]
         IN  SetReq(s, w, [s.req[w] EXCEPT !.pc = SavePc(inst), !.inst = inst,
                                           !.new_id = <<>>,
                                           !.client = [pk |-> pk, name |-> name]])

\* Clients matching name__iexact = name
iexact(cl, name) == {pk \in DOMAIN cl : Lower(cl[pk].name) = Lower(name)}

\* Client.save of a new Client: self.client_id = Client.objects.get_next_client_id()
Client_save_next_id(s, w) ==
    LET id == get_next_client_id(s.clients)
    IN  IF id = Raised THEN Raise(s, w, "ValueError")
        ELSE SetReq(s, w, [s.req[w] EXCEPT !.pc = "client_insert", !.new_id = id])

\* Client.save of a new Client: super().save(), the INSERT. client_id is unique:
\* a taken client_id raises IntegrityError, which get_or_create answers by
\* looking the client up again and which ends an add_client request.
Client_save_insert(s, w) ==
    LET r == s.req[w]
    IN  IF \E pk \in DOMAIN s.clients : s.clients[pk].client_id = r.new_id
        THEN IF r.site = "client_form" THEN Raise(s, w, "IntegrityError")
             ELSE SetReq(s, w, [r EXCEPT !.pc = "goc_retry"])
        ELSE LET t == [s EXCEPT
                         !.clients = s.clients @@
                             (s.nextClientPk :> [client_id |-> r.new_id,
                                                 name |-> r.client_name]),
                         !.nextClientPk = s.nextClientPk + 1,
                         !.issuedClientIds = s.issuedClientIds \cup {r.new_id}]
             IN  IF r.site = "client_form" THEN Finish(t, w)
                 ELSE AfterGetOrCreate(t, w, s.nextClientPk, r.client_name)

\* Client.objects.get_or_create(name__iexact=client_name, defaults={'name': ...}):
\* the lookup. One match is returned, none leads to create(), several raise
\* MultipleObjectsReturned.
get_or_create(s, w) ==
    LET found == iexact(s.clients, s.req[w].client_name)
    IN  IF found = {} THEN SetReq(s, w, [s.req[w] EXCEPT !.pc = "client_next_id"])
        ELSE IF Cardinality(found) = 1
        THEN LET pk == CHOOSE x \in found : TRUE
             IN  AfterGetOrCreate(s, w, pk, s.clients[pk].name)
        ELSE Raise(s, w, "MultipleObjectsReturned")

\* get_or_create after create() raised IntegrityError: the lookup again; when it
\* finds no single client the error is raised to the caller
get_or_create_retry(s, w) ==
    LET found == iexact(s.clients, s.req[w].client_name)
    IN  IF Cardinality(found) = 1
        THEN LET pk == CHOOSE x \in found : TRUE
             IN  AfterGetOrCreate(s, w, pk, s.clients[pk].name)
        ELSE Raise(s, w, "IntegrityError")

\* Shipment.objects.filter(Claim_No=claim_no).exclude(id=pk).exists()
claim_no_taken(sh, claim_no, pk) ==
    \E x \in DOMAIN sh : x # pk /\ sh[x].Claim_No = claim_no

\* A form that asks only for a claim number that is not taken
form_is_valid_unique_only(sh, inst, client_name) ==
    ~claim_no_taken(sh, inst.Claim_No, inst.pk)

\* ShipmentForm.clean_Claim_No and ShipmentForm.clean
form_is_valid(sh, inst, client_name) ==
    /\ inst.Claim_No # <<>>
    /\ StartsWith(inst.Claim_No, <<"S">>)
    /\ ~claim_no_taken(sh, inst.Claim_No, inst.pk)
    /\ client_name # <<>>

\* add_shipment's duplicate check and form.is_valid(), edit_shipment's
\* form.is_valid(): a rejected POST goes on to render the form again
validate(s, w) ==
    LET r == s.req[w]
    IN  IF r.op = "add_shipment" /\ claim_no_taken(s.shipments, r.inst.Claim_No, 0)
        THEN SetReq(s, w, [r EXCEPT !.pc = "render"])
        ELSE IF ~form_is_valid(s.shipments, r.inst, r.client_name)
        THEN SetReq(s, w, [r EXCEPT !.pc = "render"])
        ELSE SetReq(s, w, [r EXCEPT !.pc = "goc_get"])

\* return render(request, 'main/add_shipment.html' or 'main/edit_shipment.html',
\* ...): the bound form is shown again with its errors, and the request ends
render(s, w) == SetReq(s, w, Idle)

\* Shipment.save: if not self.claim_id: self.claim_id = get_next_claim_id()
Shipment_save_claim_id(s, w) ==
    LET inst == [s.req[w].inst EXCEPT !.claim_id = get_next_claim_id(s.shipments)]
    IN  SetReq(s, w, [s.req[w] EXCEPT !.inst = inst, !.pc = SavePc(inst)])

\* Shipment.save: if not self.client_reference and self.client:
\*     self.client_reference = self.client.get_next_client_reference()
Shipment_save_client_reference(s, w) ==
    LET r == s.req[w]
        inst == [r.inst EXCEPT !.client_reference =
                    get_next_client_reference(s.shipments, r.client.pk,
                                              r.client.name, s.today)]
    IN  SetReq(s, w, [r EXCEPT !.inst = inst, !.pc = "save_write"])

\* A Shipment table whose claim_id column is not unique
constraints_hold_without_unique_claim_id(s, inst) ==
    /\ ~claim_no_taken(s.shipments, inst.Claim_No, inst.pk)
    /\ inst.client \in DOMAIN s.clients

\* The constraints of the Shipment table on a write of inst: Claim_No and
\* claim_id unique, client a stored Client
constraints_hold(s, inst) ==
    /\ ~claim_no_taken(s.shipments, inst.Claim_No, inst.pk)
    /\ ~\E x \in DOMAIN s.shipments :
           x # inst.pk /\ s.shipments[x].claim_id = inst.claim_id
    /\ inst.client \in DOMAIN s.clients

\* Shipment.save: the derived fields, then super().save(): an INSERT for a new
\* instance, which sets created_at (auto_now_add); for a stored one an UPDATE of
\* its row, or an INSERT under its old pk when the row is gone. A violated
\* constraint raises IntegrityError.
Shipment_save_write(s, w) ==
    LET saved == save_derived(s.req[w].inst)
        inst == IF saved.pk = 0 THEN [saved EXCEPT !.created_at = s.today] ELSE saved
    IN  IF ~constraints_hold(s, inst) THEN Raise(s, w, "IntegrityError")
        ELSE IF inst.pk = 0
        THEN Finish([s EXCEPT
                       !.shipments = s.shipments @@ (s.nextShipmentPk :> RowOf(inst)),
                       !.nextShipmentPk = s.nextShipmentPk + 1,
                       !.issuedClaimIds = s.issuedClaimIds \cup {inst.claim_id}], w)
        ELSE Finish([s EXCEPT
                       !.shipments = (inst.pk :> RowOf(inst)) @@ s.shipments], w)

\* A numeric cell of the sheet as process_excel_data reads it: 0 for an empty cell
cell_amount(x) == <<OrZero(x)>>

\* A cell of a date column as process_excel_data reads it: a date as it is,
\* text by the first of the two formats that parses it, anything else None
cell_date(cell) ==
    IF cell.type = "date" THEN <<cell.value>>
    ELSE IF cell.type # "str" THEN None
    ELSE IF ~strptime_raises(cell.value, "%Y-%m-%d")
    THEN <<strptime(cell.value, "%Y-%m-%d")>>
    ELSE IF ~strptime_raises(cell.value, "%d/%m/%Y")
    THEN <<strptime(cell.value, "%d/%m/%Y")>>
    ELSE None

\* process_excel_data, one row up to get_or_create: a row whose claim number is
\* stored is skipped, a row without a claimant is an error, any other row
\* becomes a Shipment(...) with every amount and Total_Savings set
process_excel_row(s, w) ==
    LET r == s.req[w]
        row == Head(r.rows)
    IN  IF row.claim_no # <<>> /\ claim_no_taken(s.shipments, row.claim_no, 0)
        THEN NextRow(s, w, [r EXCEPT !.skipped_entries =
                                        Append(r.skipped_entries, row.claim_no)])
        ELSE IF row.claimant = <<>> THEN Raise(s, w, "Missing claimant name")
        ELSE SetReq(s, w,
               [r EXCEPT
                  !.pc = "goc_get", !.site = "row", !.client_name = row.claimant,
                  !.inst = [NewShipment EXCEPT
                              !.Claim_No = row.claim_no,
                              !.Intend_Claim_Date = cell_date(row.intend_date),
                              !.Claimed_Amount = cell_amount(row.amts[1]),
                              !.Amount_Paid_By_Carrier = cell_amount(row.amts[2]),
                              !.Amount_Paid_By_Awa = cell_amount(row.amts[3]),
                              !.Amount_Paid_By_Insurance = cell_amount(row.amts[4]),
                              !.Total_Savings = cell_amount(row.total_savings),
                              !.Settlement_Status = row.settlement]])

\* The next step of the request worker w has in hand
StepOf(s, w) ==
    CASE s.req[w].pc = "client_next_id" -> Client_save_next_id(s, w)
      [] s.req[w].pc = "client_insert" -> Client_save_insert(s, w)
      [] s.req[w].pc = "goc_get" -> get_or_create(s, w)
      [] s.req[w].pc = "goc_retry" -> get_or_create_retry(s, w)
      [] s.req[w].pc = "validate" -> validate(s, w)
      [] s.req[w].pc = "render" -> render(s, w)
      [] s.req[w].pc = "save_claim_id" -> Shipment_save_claim_id(s, w)
      [] s.req[w].pc = "save_client_reference" -> Shipment_save_client_reference(s, w)
      [] s.req[w].pc = "save_write" -> Shipment_save_write(s, w)
      [] s.req[w].pc = "row" -> process_excel_row(s, w)
      [] s.req[w].pc = "report" -> report(s, w)

\* The model's tables have room for the row the next step of w inserts
HasRoom(s, w, P) ==
    /\ s.req[w].pc = "client_insert" => s.nextClientPk <= P.maxC
    /\ s.req[w].pc = "save_write" /\ s.req[w].inst.pk = 0 => s.nextShipmentPk <= P.maxS

\* The request of worker w run to its end with no other worker in between
RECURSIVE Run(_, _, _)
Run(s, w, P) ==
    IF s.req[w].pc = "idle" \/ ~HasRoom(s, w, P) THEN s
    ELSE Run(StepOf(s, w), w, P)

\* ---------------------------------------------------------------- requests

\* A request is taken by the first idle worker of P
CanStart(w, P) ==
    /\ w \in P.W
    /\ req[w].op = "idle"
    /\ \A v \in P.W : v < w => req[v].op # "idle"

\* add_client: ClientForm is bound to the POST; a valid form goes on to
\* form.save(), that is Client.save
post_add_client(s, w, name) ==
    SetReq(s, w, IF name = <<>> THEN Idle
                 ELSE [Idle EXCEPT !.op = "add_client", !.pc = "client_next_id",
                                   !.site = "client_form", !.client_name = name])

\* The instance a bound ShipmentForm builds from the POST over `base`
form_instance(base, claim_no, amts) ==
    [base EXCEPT !.Claim_No = claim_no, !.Intend_Claim_Date = <<DateOf(1)>>,
                 !.Claimed_Amount = amts[1],
                 !.Amount_Paid_By_Carrier = amts[2], !.Amount_Paid_By_Awa = amts[3],
                 !.Amount_Paid_By_Insurance = amts[4]]

\* add_shipment: a POST arrives and ShipmentForm(request.POST) is bound
post_add_shipment(s, w, claim_no, name, amts) ==
    SetReq(s, w, [Idle EXCEPT !.op = "add_shipment", !.pc = "validate",
                              !.site = "view", !.client_name = name,
                              !.inst = form_instance(NewShipment, claim_no, amts)])

\* edit_shipment: get_object_or_404, then ShipmentForm(request.POST, instance=shipment)
post_edit_shipment(s, w, pk, claim_no, name, amts) ==
    SetReq(s, w, [Idle EXCEPT !.op = "edit_shipment", !.pc = "validate",
                              !.site = "view", !.client_name = name,
                              !.inst = form_instance(InstanceOf(s.shipments[pk], pk),
                                                     claim_no, amts)])

\* import_shipments: process_excel_data is called on the sheet's data rows
post_import(s, w, rows) ==
    SetReq(s, w, [Idle EXCEPT !.op = "import", !.pc = "row", !.rows = rows])

\* Claim numbers are interchangeable, so a user types one of those used so far,
\* the next unused ones, or one of P.otherClaimNos
ClaimNoInputs(P, fresh) ==
    {ClaimNo(i) : i \in 1..(nextShipmentPk + fresh - 1)} \cup P.otherClaimNos

\* The data rows a sheet can hold
Rows(P, fresh) ==
    [claim_no : ClaimNoInputs(P, fresh) \cup P.sheetClaimNos,
     claimant : P.names,
     intend_date : P.dates,
     amts : P.amts,
     total_savings : P.savings,
     settlement : P.settlements]

\* The sheets a user can upload
Sheets(P) == UNION {[1..n -> Rows(P, P.maxRows)] : n \in 1..P.maxRows}

\* The request put to worker w as s runs to its end, and that is the next state
Handled(s, w, P) ==
    LET t == Run(s, w, P)
    IN  t.req[w].pc = "idle" /\ Becomes(t)

\* add_client, the whole request
add_client(P) ==
    \E w \in P.W, name \in P.names :
        CanStart(w, P) /\ Handled(post_add_client(World, w, name), w, P)

\* add_shipment, the whole request
add_shipment(P) ==
    \E w \in P.W, claim_no \in ClaimNoInputs(P, 1), name \in P.names,
       amts \in P.amts :
        CanStart(w, P)
        /\ Handled(post_add_shipment(World, w, claim_no, name, amts), w, P)

\* edit_shipment, the whole request
edit_shipment(P) ==
    \E w \in P.W, pk \in DOMAIN shipments, claim_no \in ClaimNoInputs(P, 1),
       name \in P.names, amts \in P.amts :
        CanStart(w, P)
        /\ Handled(post_edit_shipment(World, w, pk, claim_no, name, amts), w, P)

\* import_shipments, the whole request
process_excel_data(P) ==
    \E w \in P.W, rows \in Sheets(P) :
        CanStart(w, P) /\ Handled(post_import(World, w, rows), w, P)

\* edit_client: ClientForm bound to the stored client; Client.save keeps the
\* client_id it finds set and updates the row
edit_client(P) ==
    /\ \E w \in P.W : req[w].op = "idle"
    /\ \E pk \in DOMAIN clients, name \in P.names :
          clients' = IF name = <<>> THEN clients
                     ELSE [clients EXCEPT ![pk].name = name]
    /\ UNCHANGED <<shipments, nextClientPk, nextShipmentPk, today, req,
                   issuedClientIds, issuedClaimIds, backup>>

\* The shipments a deletion of client pk leaves when the foreign key does
\* nothing about them
on_delete_DO_NOTHING(sh, pk) == sh

\* Shipment.client is on_delete=CASCADE: the shipments of client pk go with it
on_delete_CASCADE(sh, pk) ==
    [x \in {y \in DOMAIN sh : sh[y].client # pk} |-> sh[x]]

\* delete_client: a POST deletes the client and, by on_delete=CASCADE, its
\* shipments; a client with shipments is deleted only when 'confirm' is posted
delete_client(P) ==
    /\ \E w \in P.W : req[w].op = "idle"
    /\ \E pk \in DOMAIN clients, confirm \in BOOLEAN :
          LET shipment_count ==
                  Cardinality({x \in DOMAIN shipments : shipments[x].client = pk})
          IN  IF shipment_count > 0 /\ ~confirm
              THEN UNCHANGED <<clients, shipments>>
              ELSE /\ clients' = [c \in DOMAIN clients \ {pk} |-> clients[c]]
                   /\ shipments' = on_delete_CASCADE(shipments, pk)
    /\ UNCHANGED <<nextClientPk, nextShipmentPk, today, req,
                   issuedClientIds, issuedClaimIds, backup>>

\* delete_shipment: a POST deletes the row
delete_shipment(P) ==
    /\ \E w \in P.W : req[w].op = "idle"
    /\ \E pk \in DOMAIN shipments :
          shipments' = [x \in DOMAIN shipments \ {pk} |-> shipments[x]]
    /\ UNCHANGED <<clients, nextClientPk, nextShipmentPk, today, req,
                   issuedClientIds, issuedClaimIds, backup>>

\* clear_database: Shipment.objects.all().delete()
clear_database(P) ==
    /\ \E w \in P.W : req[w].op = "idle"
    /\ shipments' = <<>>
    /\ UNCHANGED <<clients, nextClientPk, nextShipmentPk, today, req,
                   issuedClientIds, issuedClaimIds, backup>>

\* The calendar day changes
NextDay(P) ==
    /\ today < P.maxD
    /\ today' = today + 1
    /\ UNCHANGED <<clients, shipments, nextClientPk, nextShipmentPk, req,
                   issuedClientIds, issuedClaimIds, backup>>

\* ------------------------------------------------- requests, step by step
\*
\* The server handles requests on several worker threads. Each database
\* statement of a request is one step, and the steps of different workers
\* interleave: transaction.atomic() takes no lock, so it orders nothing here.

\* Worker w is at step pc and the model has room for what the step inserts
At(w, pc, P) == w \in P.W /\ req[w].pc = pc /\ HasRoom(World, w, P)

\* A POST to add_client arrives
begin_add_client(P) ==
    \E w \in P.W, name \in P.names :
        CanStart(w, P) /\ Becomes(post_add_client(World, w, name))

\* A POST to add_shipment arrives; another one may be in hand, so the user may
\* type a claim number that one has not stored yet
begin_add_shipment(P) ==
    \E w \in P.W, claim_no \in ClaimNoInputs(P, 2), name \in P.names,
       amts \in P.amts :
        CanStart(w, P) /\ Becomes(post_add_shipment(World, w, claim_no, name, amts))

\* A POST to edit_shipment arrives for a stored claim
begin_edit_shipment(P) ==
    \E w \in P.W, pk \in DOMAIN shipments, claim_no \in ClaimNoInputs(P, 1),
       name \in P.names, amts \in P.amts :
        CanStart(w, P)
        /\ Becomes(post_edit_shipment(World, w, pk, claim_no, name, amts))

\* A POST to import_shipments arrives with a sheet of n data rows, which
\* worksheet.iter_rows yields one by one as the loop asks for them
begin_import(P) ==
    \E w \in P.W, n \in 1..MaxSheetRows :
        CanStart(w, P)
        /\ Becomes(SetReq(World, w, [Idle EXCEPT !.op = "import",
                                                 !.pc = "iter_rows", !.unread = n]))

\* for row in worksheet.iter_rows(min_row=2, values_only=True): the next row
iter_rows(P) ==
    \E w \in P.W, row \in Rows(P, 1) :
        At(w, "iter_rows", P)
        /\ Becomes(SetReq(World, w, [req[w] EXCEPT !.pc = "row", !.rows = <<row>>,
                                                   !.unread = @ - 1]))

step_process_excel_row(P) ==
    \E w \in P.W : At(w, "row", P) /\ Becomes(process_excel_row(World, w))

step_report(P) ==
    \E w \in P.W : At(w, "report", P) /\ Becomes(report(World, w))

step_validate(P) ==
    \E w \in P.W : At(w, "validate", P) /\ Becomes(validate(World, w))

step_render(P) ==
    \E w \in P.W : At(w, "render", P) /\ Becomes(render(World, w))

step_get_or_create(P) ==
    \E w \in P.W : At(w, "goc_get", P) /\ Becomes(get_or_create(World, w))

step_Client_save_next_id(P) ==
    \E w \in P.W : At(w, "client_next_id", P) /\ Becomes(Client_save_next_id(World, w))

step_Client_save_insert(P) ==
    \E w \in P.W : At(w, "client_insert", P) /\ Becomes(Client_save_insert(World, w))

step_get_or_create_retry(P) ==
    \E w \in P.W : At(w, "goc_retry", P) /\ Becomes(get_or_create_retry(World, w))

step_Shipment_save_claim_id(P) ==
    \E w \in P.W : At(w, "save_claim_id", P) /\ Becomes(Shipment_save_claim_id(World, w))

step_Shipment_save_client_reference(P) ==
    \E w \in P.W :
        At(w, "save_client_reference", P)
        /\ Becomes(Shipment_save_client_reference(World, w))

step_Shipment_save_write(P) ==
    \E w \in P.W : At(w, "save_write", P) /\ Becomes(Shipment_save_write(World, w))

\* delete_shipment while other requests are in hand
delete_shipment_now(P) ==
    /\ \E pk \in DOMAIN shipments :
          shipments' = [x \in DOMAIN shipments \ {pk} |-> shipments[x]]
    /\ UNCHANGED <<clients, nextClientPk, nextShipmentPk, today, req,
                   issuedClientIds, issuedClaimIds, backup>>

\* ------------------------------------------------------------ the backups
\*
\* The day number `today` is the clock: datetime.datetime.now() is read in
\* days, as (current_time - last_backup_date).days compares it.

\* b is the backup system's next state, and nothing else changes
BackupBecomes(b) ==
    /\ backup' = b
    /\ UNCHANGED <<clients, shipments, nextClientPk, nextShipmentPk, today, req,
                   issuedClientIds, issuedClaimIds>>

\* Thread.is_alive(): started, and weekly_backup_thread never returns
is_alive(b, t) == b.threads[t].pc # "created"

\* start_backup_thread: if backup_thread is None or not backup_thread.is_alive()
start_backup_thread_check(P) ==
    \E w \in P.W :
        /\ backup.caller[w] = "idle"
        /\ BackupBecomes(
              IF backup.backup_thread = 0 \/ ~is_alive(backup, backup.backup_thread)
              THEN [backup EXCEPT !.caller[w] = "create"]
              ELSE backup)

\* start_backup_thread: backup_thread = threading.Thread(target=weekly_backup_thread)
start_backup_thread_create(P) ==
    \E w \in P.W :
        /\ backup.caller[w] = "create"
        /\ Len(backup.threads) < MaxThreads
        /\ BackupBecomes(
              [backup EXCEPT
                 !.threads = Append(@, [pc |-> "created", current_time |-> 0]),
                 !.backup_thread = Len(backup.threads) + 1,
                 !.caller[w] = "start"])

\* start_backup_thread: backup_thread.start(), on the thread the global names
\* now; start() of a started thread raises RuntimeError
start_backup_thread_start(P) ==
    \E w \in P.W :
        /\ backup.caller[w] = "start"
        /\ LET t == backup.backup_thread
           IN  BackupBecomes(
                 IF backup.threads[t].pc = "created"
                 THEN [backup EXCEPT !.threads[t].pc = "read_marker",
                                     !.caller[w] = "idle"]
                 ELSE [backup EXCEPT !.caller[w] = "idle"])

\* Thread t is at line pc of weekly_backup_thread
ThreadAt(t, pc) == t \in DOMAIN backup.threads /\ backup.threads[t].pc = pc

\* weekly_backup_thread: last_backup_date from last_backup.txt, or a week ago
\* when there is no file
read_marker ==
    \E t \in 1..MaxThreads :
        /\ ThreadAt(t, "read_marker")
        /\ BackupBecomes(
              [backup EXCEPT
                 !.last_backup_date = IF backup.marker # None THEN backup.marker
                                      ELSE <<today - BACKUP_DAYS>>,
                 !.threads[t].pc = "check"])

\* weekly_backup_thread, the top of the loop: current_time = now(), and the
\* test whether a week has passed since last_backup_date
check_week_passed ==
    \E t \in 1..MaxThreads :
        /\ ThreadAt(t, "check")
        /\ BackupBecomes(
              [backup EXCEPT
                 !.threads[t].current_time = today,
                 !.threads[t].pc =
                     IF \/ backup.last_backup_date = None
                        \/ today - backup.last_backup_date[1] >= BACKUP_DAYS
                     THEN "export_to_excel" ELSE "sleep"])

\* A cycle that advances last_backup_date before its exports are done
export_advancing_timestamp(t, raises, to) ==
    [backup EXCEPT !.threads[t].pc = IF raises THEN "sleep" ELSE to,
                   !.last_backup_date = <<backup.threads[t].current_time>>]

\* weekly_backup_thread: one of export_to_excel, export_to_csv, export_to_pdf
\* writes its file, or raises and the loop's handler sleeps
export(t, raises, to) ==
    [backup EXCEPT !.threads[t].pc = IF raises THEN "sleep" ELSE to]

export_to_excel ==
    \E t \in 1..MaxThreads, raises \in BOOLEAN :
        /\ ThreadAt(t, "export_to_excel")
        /\ BackupBecomes(export(t, raises, "export_to_csv"))

export_to_csv ==
    \E t \in 1..MaxThreads, raises \in BOOLEAN :
        /\ ThreadAt(t, "export_to_csv")
        /\ BackupBecomes(export(t, raises, "export_to_pdf"))

export_to_pdf ==
    \E t \in 1..MaxThreads, raises \in BOOLEAN :
        /\ ThreadAt(t, "export_to_pdf")
        /\ BackupBecomes(export(t, raises, "set_last_backup_date"))

\* weekly_backup_thread: last_backup_date = current_time
set_last_backup_date ==
    \E t \in 1..MaxThreads :
        /\ ThreadAt(t, "set_last_backup_date")
        /\ BackupBecomes(
              [backup EXCEPT
                 !.last_backup_date = <<backup.threads[t].current_time>>,
                 !.threads[t].pc = "write_marker"])

\* weekly_backup_thread: f.write(last_backup_date.isoformat()), unless open()
\* or write() raises
write_marker ==
    \E t \in 1..MaxThreads, raises \in BOOLEAN :
        /\ ThreadAt(t, "write_marker")
        /\ BackupBecomes(
              [backup EXCEPT
                 !.marker = IF raises THEN @ ELSE backup.last_backup_date,
                 !.threads[t].pc = "sleep"])

\* weekly_backup_thread: time.sleep returns
sleep ==
    \E t \in 1..MaxThreads :
        /\ ThreadAt(t, "sleep")
        /\ BackupBecomes([backup EXCEPT !.threads[t].pc = "check"])

\* weekly_backup_status, POST with 'trigger_backup': export_to_excel, then the
\* marker is written with the current time; an exception leaves a message
trigger_backup ==
    /\ \E w \in Workers : req[w].op = "idle"
    /\ \E raises \in BOOLEAN :
          BackupBecomes(IF raises THEN backup
                        ELSE [backup EXCEPT !.marker = <<today>>])

\* The server process that runs a backup thread is restarted: its threads
\* and globals are gone, last_backup.txt is as it was
restart ==
    /\ backup.threads # <<>>
    /\ BackupBecomes([NoBackup EXCEPT !.marker = backup.marker])

\* ------------------------------------------------------- specifications

\* The one set of amounts of a claim nobody has paid or valued
NoAmounts == {<<None, None, None, None>>}

\* SeqCreate: one worker, so the requests run one after the other; only the
\* requests that create rows, and the calendar
Creating ==
    [W |-> {1},
     names |-> {NAME_AB, NAME_AB_UPPER, NAME_AB_JOINED, <<>>},
     otherClaimNos |-> {},
     amts |-> NoAmounts,
     sheetClaimNos |-> {<<>>},
     savings |-> {None},
     settlements |-> {NoStatus},
     dates |-> {EMPTY_CELL},
     maxC |-> MaxClients, maxS |-> MaxShipments, maxD |-> MaxDay, maxRows |-> MaxRows]

NextCreate ==
    \/ add_client(Creating)
    \/ add_shipment(Creating)
    \/ process_excel_data(Creating)
    \/ NextDay(Creating)

CreateSpec == Init /\ [][NextCreate]_vars

\* SeqSpec: one worker, the requests of the pages that add, edit and delete
\* clients and claims, within one calendar day
Sequential ==
    [W |-> {1},
     names |-> {NAME_AB, NAME_CD},
     otherClaimNos |-> {},
     amts |-> {<<<<2>>, <<1>>, None, None>>, <<<<2>>, <<1>>, <<1>>, None>>},
     sheetClaimNos |-> {},
     savings |-> {None},
     settlements |-> {NoStatus},
     dates |-> {EMPTY_CELL},
     maxC |-> MaxClients, maxS |-> MaxEdited, maxD |-> 1, maxRows |-> MaxRows]

NextSeq ==
    \/ add_client(Sequential)
    \/ edit_client(Sequential)
    \/ delete_client(Sequential)
    \/ add_shipment(Sequential)
    \/ edit_shipment(Sequential)
    \/ delete_shipment(Sequential)
    \/ clear_database(Sequential)

SeqSpec == Init /\ [][NextSeq]_vars

\* The amounts of a claim: nobody has valued or paid it; valued at zero; valued
\* and unpaid; paid in part; paid in full by two payers; paid beyond its value;
\* valued with zero payments; paid but not valued
Amounts ==
    {<<None, None, None, None>>,
     <<<<0>>, <<1>>, None, None>>,
     <<<<2>>, None, None, None>>,
     <<<<2>>, <<1>>, None, None>>,
     <<<<2>>, None, <<1>>, <<1>>>>,
     <<<<2>>, <<1>>, <<1>>, <<1>>>>,
     <<<<2>>, <<0>>, <<0>>, <<0>>>>,
     <<None, None, <<1>>, None>>}

\* MoneySpec: one worker and one claim, added by the form or by the import of a
\* sheet with one data row, and then edited
Money ==
    [W |-> {1},
     names |-> {NAME_AB},
     otherClaimNos |-> {},
     amts |-> Amounts,
     sheetClaimNos |-> {},
     savings |-> {None, <<1>>},
     settlements |-> {NoStatus, "NOT_SETTLED", "PARTIAL", "SETTLED"},
     dates |-> {EMPTY_CELL},
     maxC |-> 1, maxS |-> 1, maxD |-> 1, maxRows |-> 1]

NextMoney ==
    \/ add_shipment(Money)
    \/ edit_shipment(Money)
    \/ process_excel_data(Money)

MoneySpec == Init /\ [][NextMoney]_vars

\* Identifiers a table can hold from before the allocator wrote them (the
\* columns are plain CharFields, written also by the admin site and by data
\* loads): one the allocator would have written, and one whose number int()
\* does not parse
LEGACY_CLIENT_IDS == {<<"C", "L", "0", "0", "0", "0", "1">>, <<"C", "L", "0", "0", "A">>}
LEGACY_CLAIM_IDS ==
    {<<"C", "L", "M", "0", "0", "0", "0", "0", "1">>, <<"C", "L", "M", "0", "0", "A">>}

\* A database that holds one client and one claim of it from before
InitLegacy ==
    /\ \E id \in LEGACY_CLIENT_IDS :
          /\ clients = <<[client_id |-> id, name |-> NAME_AB]>>
          /\ issuedClientIds = {id}
    /\ \E id \in LEGACY_CLAIM_IDS :
          /\ shipments =
                <<RowOf([NewShipment EXCEPT
                           !.Claim_No = ClaimNo(1), !.claim_id = id, !.client = 1,
                           !.client_reference =
                               get_next_client_reference(<<>>, 1, NAME_AB, 1),
                           !.created_at = 1])>>
          /\ issuedClaimIds = {id}
    /\ backup = NoBackup
    /\ nextClientPk = 2
    /\ nextShipmentPk = 2
    /\ today = 1
    /\ req = [w \in Workers |-> Idle]

\* LegacySpec: one worker, the requests that create rows, on such a database
Legacy ==
    [W |-> {1},
     names |-> {NAME_AB, NAME_CD, <<>>},
     otherClaimNos |-> {},
     amts |-> NoAmounts,
     sheetClaimNos |-> {<<>>},
     savings |-> {None},
     settlements |-> {NoStatus},
     dates |-> {EMPTY_CELL},
     maxC |-> MaxClients, maxS |-> MaxShipments, maxD |-> MaxDay, maxRows |-> 1]

NextLegacy ==
    \/ add_client(Legacy)
    \/ add_shipment(Legacy)
    \/ process_excel_data(Legacy)
    \/ NextDay(Legacy)

LegacySpec == InitLegacy /\ [][NextLegacy]_vars

\* EntrySpec: one worker, the claim form step by step, with what a user can
\* get wrong: a claim number that is blank, lacks the 'S' or is taken, a blank
\* client name, an amount below zero
Entry ==
    [W |-> {1},
     names |-> {NAME_AB, NAME_CD, <<>>},
     otherClaimNos |-> {CLAIM_X1, <<>>},
     amts |-> {<<None, None, None, None>>, <<<<-1>>, None, None, None>>},
     sheetClaimNos |-> {},
     savings |-> {None},
     settlements |-> {NoStatus},
     dates |-> {EMPTY_CELL},
     maxC |-> MaxClients, maxS |-> MaxEdited, maxD |-> 1, maxRows |-> 1]

NextEntry ==
    \/ begin_add_shipment(Entry)
    \/ begin_edit_shipment(Entry)
    \/ step_validate(Entry)
    \/ step_render(Entry)
    \/ step_get_or_create(Entry)
    \/ step_Client_save_next_id(Entry)
    \/ step_Client_save_insert(Entry)
    \/ step_Shipment_save_claim_id(Entry)
    \/ step_Shipment_save_client_reference(Entry)
    \/ step_Shipment_save_write(Entry)

EntrySpec == Init /\ [][NextEntry]_vars

\* ImportSpec: one worker, imports row by row, of sheets whose rows can lack
\* the claim number or the claimant, repeat a claim number, carry a claim
\* number without the 'S', text that is no date, or an amount below zero
Import ==
    [W |-> {1},
     names |-> {NAME_AB, <<>>},
     otherClaimNos |-> {},
     amts |-> NoAmounts,
     sheetClaimNos |-> {CLAIM_X1, <<>>},
     savings |-> {None},
     settlements |-> {NoStatus},
     dates |-> {DATE_CELL, TEXT_ISO, TEXT_DMY, TEXT_NO_DATE},
     maxC |-> 1, maxS |-> MaxEdited, maxD |-> 1, maxRows |-> 1]

NextImport ==
    \/ begin_import(Import)
    \/ iter_rows(Import)
    \/ step_process_excel_row(Import)
    \/ step_get_or_create(Import)
    \/ step_Client_save_next_id(Import)
    \/ step_Client_save_insert(Import)
    \/ step_Shipment_save_claim_id(Import)
    \/ step_Shipment_save_client_reference(Import)
    \/ step_Shipment_save_write(Import)
    \/ step_report(Import)

ImportSpec == Init /\ [][NextImport]_vars

\* StartSpec: two callers of start_backup_thread at once, and the threads
\* they start, on one day
Starting == [W |-> Workers, maxD |-> 1]

NextStart ==
    \/ start_backup_thread_check(Starting)
    \/ start_backup_thread_create(Starting)
    \/ start_backup_thread_start(Starting)
    \/ read_marker
    \/ check_week_passed
    \/ export_to_excel
    \/ export_to_csv
    \/ export_to_pdf
    \/ set_last_backup_date
    \/ write_marker
    \/ sleep

StartSpec == Init /\ [][NextStart]_vars

\* BackupSpec: the backup system over MaxBackupDay days, with one caller of
\* start_backup_thread at a time, the manual trigger, and restarts of the
\* server
Backup == [W |-> {1}, maxD |-> MaxBackupDay]

NextBackup ==
    \/ start_backup_thread_check(Backup)
    \/ start_backup_thread_create(Backup)
    \/ start_backup_thread_start(Backup)
    \/ read_marker
    \/ check_week_passed
    \/ export_to_excel
    \/ export_to_csv
    \/ export_to_pdf
    \/ set_last_backup_date
    \/ write_marker
    \/ sleep
    \/ trigger_backup
    \/ restart
    \/ NextDay(Backup)

BackupSpec == Init /\ [][NextBackup]_vars

\* ReassignSpec: one worker; claims are added, edited and deleted for two
\* clients whose names differ and whose sanitized names are the same, so an
\* edit can hand a claim to a client whose references look like its own
Reassigning ==
    [W |-> {1},
     names |-> {NAME_AB, NAME_AB_JOINED},
     otherClaimNos |-> {},
     amts |-> NoAmounts,
     sheetClaimNos |-> {},
     savings |-> {None},
     settlements |-> {NoStatus},
     dates |-> {EMPTY_CELL},
     maxC |-> MaxClients, maxS |-> MaxShipments, maxD |-> 1, maxRows |-> 1]

NextReassign ==
    \/ add_shipment(Reassigning)
    \/ edit_shipment(Reassigning)
    \/ delete_shipment(Reassigning)

ReassignSpec == Init /\ [][NextReassign]_vars

\* RecreateSpec: one worker; clients and claims are added and deleted, the
\* newest ones included, so that later rows are created over the gaps
Recreating ==
    [W |-> {1},
     names |-> {NAME_AB, NAME_CD},
     otherClaimNos |-> {},
     amts |-> NoAmounts,
     sheetClaimNos |-> {},
     savings |-> {None},
     settlements |-> {NoStatus},
     dates |-> {EMPTY_CELL},
     maxC |-> MaxShipments, maxS |-> MaxShipments, maxD |-> 1, maxRows |-> 1]

NextRecreate ==
    \/ add_client(Recreating)
    \/ delete_client(Recreating)
    \/ add_shipment(Recreating)
    \/ delete_shipment(Recreating)

RecreateSpec == Init /\ [][NextRecreate]_vars

\* AttemptSpec: one worker; every request is an attempt to create one claim, by
\* the form or by the import of a sheet with one data row, whose claim number
\* may be empty; claims are deleted in between
Attempting ==
    [W |-> {1},
     names |-> {NAME_AB, NAME_CD},
     otherClaimNos |-> {},
     amts |-> NoAmounts,
     sheetClaimNos |-> {<<>>},
     savings |-> {None},
     settlements |-> {NoStatus},
     dates |-> {EMPTY_CELL},
     maxC |-> MaxClients, maxS |-> MaxShipments, maxD |-> 1, maxRows |-> 1]

NextAttempt ==
    \/ add_shipment(Attempting)
    \/ process_excel_data(Attempting)
    \/ delete_shipment(Attempting)

AttemptSpec == Init /\ [][NextAttempt]_vars

\* Spec: two workers, whose requests interleave step by step
Concurrent ==
    [W |-> Workers,
     names |-> {NAME_AB},
     otherClaimNos |-> {},
     amts |-> NoAmounts,
     sheetClaimNos |-> {},
     savings |-> {None},
     settlements |-> {NoStatus},
     dates |-> {EMPTY_CELL},
     maxC |-> MaxClients, maxS |-> MaxShipments, maxD |-> 1, maxRows |-> MaxRows]

Next ==
    \/ begin_add_client(Concurrent)
    \/ begin_add_shipment(Concurrent)
    \/ step_validate(Concurrent)
    \/ step_render(Concurrent)
    \/ step_get_or_create(Concurrent)
    \/ step_Client_save_next_id(Concurrent)
    \/ step_Client_save_insert(Concurrent)
    \/ step_get_or_create_retry(Concurrent)
    \/ step_Shipment_save_claim_id(Concurrent)
    \/ step_Shipment_save_client_reference(Concurrent)
    \/ step_Shipment_save_write(Concurrent)
    \/ delete_shipment_now(Concurrent)

Spec == Init /\ [][Next]_vars

\* ------------------------------------------------------------------ claims

\* Worker w holds a claim_id that get_next_claim_id returned to it for a claim
\* it has not stored yet
C1_HoldsClaimId(w) ==
    /\ req[w].pc \in {"save_client_reference", "save_write"}
    /\ req[w].inst.pk = 0

\* C1: two concurrent requests that each create a Client, or each create a
\* claim, never hold the same generated identifier: the values that
\* get_next_client_id (get_next_claim_id) returned to them differ.
C1_ConcurrentIdsDiffer ==
    \A v, w \in Workers :
        v # w =>
            /\ req[v].pc = "client_insert" /\ req[w].pc = "client_insert"
                  => req[v].new_id # req[w].new_id
            /\ C1_HoldsClaimId(v) /\ C1_HoldsClaimId(w)
                  => req[v].inst.claim_id # req[w].inst.claim_id

\* C2: from an empty Client table, creations with no deletion leave the clients
\* with client_ids exactly CL00001, CL00002, ... in creation order: the n-th
\* client created holds "CL0000n" (n < 10), and no number is left out.
C2_SequentialClientIds ==
    /\ DOMAIN clients = 1..(nextClientPk - 1)
    /\ \A n \in DOMAIN clients :
          clients[n].client_id = <<"C", "L", "0", "0", "0", "0">> \o Str(n)

\* Two clients have been created, by whichever request
C2_Witness ==
    /\ DOMAIN clients = {1, 2}
    /\ clients[2].client_id = <<"C", "L", "0", "0", "0", "0", "2">>

\* C3: from an empty Shipment table, creations with no deletion, by the form or
\* by the import, leave the claims with claim_ids exactly CLM000001, CLM000002,
\* ... in creation order: the n-th claim created holds "CLM00000n" (n < 10).
C3_SequentialClaimIds ==
    /\ DOMAIN shipments = 1..(nextShipmentPk - 1)
    /\ \A n \in DOMAIN shipments :
          shipments[n].claim_id = <<"C", "L", "M", "0", "0", "0", "0", "0">> \o Str(n)

\* Three claims have been created
C3_Witness ==
    /\ DOMAIN shipments = {1, 2, 3}
    /\ shipments[3].claim_id = <<"C", "L", "M", "0", "0", "0", "0", "0", "3">>

\* The claims of client c created on day d
C4_ClaimsOf(c, d) ==
    {pk \in DOMAIN shipments : shipments[pk].client = c /\ shipments[pk].created_at = d}

\* C4: for one client on one day, the middle number of client_reference counts
\* that client's claims of that day in creation order, 1, 2, 3, ..., whatever
\* was created for other clients in between.
C4_ReferenceNumbersCount ==
    \A c \in DOMAIN clients, d \in 1..MaxDay :
        \A pk \in C4_ClaimsOf(c, d) :
            LET parts == Split(shipments[pk].client_reference, "-")
            IN  /\ Len(parts) = 3
                /\ parts[2] = Str(Cardinality({x \in C4_ClaimsOf(c, d) : x <= pk}))

\* A client's first and second claim of a day, with a claim of another client,
\* whose sanitized name is the same, created between them
C4_Witness ==
    /\ DOMAIN shipments = {1, 2, 3}
    /\ shipments[1].client = shipments[3].client
    /\ shipments[2].client # shipments[1].client
    /\ shipments[1].created_at = shipments[3].created_at
    /\ shipments[2].created_at = shipments[1].created_at
    /\ clean_name(clients[shipments[1].client].name)
          = clean_name(clients[shipments[2].client].name)
    /\ Split(shipments[3].client_reference, "-")[2] = <<"2">>

\* C5: under concurrent claim creation no duplicate reference is assigned: no
\* two stored claims of one client carry the same client_reference.
C5_NoDuplicateReference ==
    \A x, y \in DOMAIN shipments :
        x # y /\ shipments[x].client = shipments[y].client
            => shipments[x].client_reference # shipments[y].client_reference

\* The number in a generated identifier, after its k-character prefix
C6_Suffix(id, k) == IntOf(Drop(id, k))

\* C6: over creations and deletions, each newly generated claim_id has a number
\* strictly greater than that of every claim_id generated before it, so that no
\* identifier is issued twice.
C6_StrictlyIncreasingIds ==
    [][\A pk \in DOMAIN shipments' \ DOMAIN shipments :
           \A id \in issuedClaimIds :
               C6_Suffix(id, 3) < C6_Suffix(shipments'[pk].claim_id, 3)]_vars

\* C7: the first save of a claim whose Total_Savings was not supplied, which
\* is every claim added through the form, leaves Total_Savings =
\* max(0, Claimed_Amount - total paid) when Claimed_Amount > 0, unset amounts
\* counting as zero, and leaves it unset when Claimed_Amount is unset or zero.
C7_FirstSaveSavings ==
    [][add_shipment(Money) =>
          \A pk \in DOMAIN shipments' \ DOMAIN shipments :
              LET row == shipments'[pk]
                  claimed == OrZero(row.Claimed_Amount)
                  paid == OrZero(row.Amount_Paid_By_Carrier)
                              + OrZero(row.Amount_Paid_By_Awa)
                              + OrZero(row.Amount_Paid_By_Insurance)
              IN  row.Total_Savings =
                      IF claimed <= 0 THEN None
                      ELSE IF claimed > paid THEN <<claimed - paid>>
                      ELSE <<0>>]_vars

\* A claim of value 2 with unset payments beside two payments of 1, for which
\* the save has computed savings of 0
C7_Witness ==
    \E pk \in DOMAIN shipments :
        /\ shipments[pk].Claimed_Amount = <<2>>
        /\ shipments[pk].Amount_Paid_By_Carrier = None
        /\ shipments[pk].Amount_Paid_By_Awa = <<1>>
        /\ shipments[pk].Amount_Paid_By_Insurance = <<1>>
        /\ shipments[pk].Total_Savings = <<0>>

\* What Total_Savings is to be for the amounts of a row
C8_Expected(row) ==
    LET claimed == OrZero(row.Claimed_Amount)
        paid == OrZero(row.Amount_Paid_By_Carrier) + OrZero(row.Amount_Paid_By_Awa)
                    + OrZero(row.Amount_Paid_By_Insurance)
    IN  <<IF claimed > paid THEN claimed - paid ELSE 0>>

\* C8: Total_Savings is recomputed on every save: after creation and any edits
\* of a claim through the form, which never supplies Total_Savings, a claim with
\* Claimed_Amount > 0 holds Total_Savings = max(0, Claimed_Amount - total paid)
\* of its current amounts.
C8_SavingsFollowAmounts ==
    \A pk \in DOMAIN shipments :
        OrZero(shipments[pk].Claimed_Amount) > 0
            => shipments[pk].Total_Savings = C8_Expected(shipments[pk])

\* C9: after every save of a claim whose Claimed_Amount and total paid are both
\* nonzero, Settlement_Status is SETTLED when the total paid reaches the
\* claimed amount and PARTIAL when it is below it, whatever the status was
\* before and whatever the import's settlement column said.
C9_StatusFollowsPayments ==
    \A pk \in DOMAIN shipments :
        LET row == shipments[pk]
            claimed == OrZero(row.Claimed_Amount)
            paid == OrZero(row.Amount_Paid_By_Carrier) + OrZero(row.Amount_Paid_By_Awa)
                        + OrZero(row.Amount_Paid_By_Insurance)
        IN  claimed # 0 /\ paid # 0
                => row.Settlement_Status = IF paid >= claimed THEN "SETTLED" ELSE "PARTIAL"

\* A claim the import stored with savings of 1 from the sheet, paid in full and
\* SETTLED
C9_Witness ==
    \E pk \in DOMAIN shipments :
        /\ shipments[pk].Claimed_Amount = <<2>>
        /\ shipments[pk].Amount_Paid_By_Carrier = <<0>>
        /\ shipments[pk].Amount_Paid_By_Awa = <<1>>
        /\ shipments[pk].Amount_Paid_By_Insurance = <<1>>
        /\ shipments[pk].Total_Savings = <<1>>
        /\ shipments[pk].Settlement_Status = "SETTLED"

\* C10: generated identifiers never change: a stored client keeps its client_id
\* and a stored claim keeps its claim_id and client_reference through every
\* request, a rename of the client, an edit of the claim's amounts and its
\* reassignment to another client included.
C10_IdentifiersNeverChange ==
    [][/\ \A pk \in DOMAIN clients \cap DOMAIN clients' :
             clients'[pk].client_id = clients[pk].client_id
       /\ \A pk \in DOMAIN shipments \cap DOMAIN shipments' :
             /\ shipments'[pk].claim_id = shipments[pk].claim_id
             /\ shipments'[pk].client_reference = shipments[pk].client_reference]_vars

\* A claim stored with one payment and edited to two, which now belongs to a
\* client whose sanitized name is not the one its reference was built from
C10_Witness ==
    \E pk \in DOMAIN shipments :
        /\ shipments[pk].Amount_Paid_By_Awa = <<1>>
        /\ shipments[pk].Total_Savings = <<1>>
        /\ ~StartsWith(shipments[pk].client_reference,
                       clean_name(clients[shipments[pk].client].name) \o <<"-">>)

\* id is prefix followed by a number int() parses
C11_Parses(id, prefix) ==
    /\ StartsWith(id, prefix)
    /\ Len(id) > Len(prefix)
    /\ \A i \in (Len(prefix) + 1)..Len(id) : id[i] \in Digits

\* C11: when the identifier of the most recent row does not parse as prefix +
\* integer, the allocator fails and the creation is aborted: no Client and no
\* claim is stored by a step that starts with such a most recent row, so none
\* gets a default identifier such as CL00001 or CLM000001.
C11_NoFallbackIdentifier ==
    [][/\ clients # <<>> /\ DOMAIN clients' \ DOMAIN clients # {}
             => C11_Parses(clients[Max(DOMAIN clients)].client_id, <<"C", "L">>)
       /\ shipments # <<>> /\ DOMAIN shipments' \ DOMAIN shipments # {}
             => C11_Parses(shipments[Max(DOMAIN shipments)].claim_id,
                           <<"C", "L", "M">>)]_vars

\* C12: deleting a client deletes all of its claims. In every state every
\* stored claim references one client, and that client exists; a step that
\* deletes a client leaves exactly the claims of the other clients, unchanged.
C12_DeleteClientCascades ==
    [][/\ \A x \in DOMAIN shipments : shipments[x].client \in DOMAIN clients
       /\ \A x \in DOMAIN shipments' : shipments'[x].client \in DOMAIN clients'
       /\ \A pk \in DOMAIN clients \ DOMAIN clients' :
             /\ DOMAIN shipments' =
                    {x \in DOMAIN shipments : shipments[x].client # pk}
             /\ \A x \in DOMAIN shipments' : shipments'[x] = shipments[x]]_vars

\* Client 1 and the claim stored first are gone, and the claim of client 2
\* stored after it is there
C12_Witness ==
    /\ DOMAIN clients = {2}
    /\ DOMAIN shipments = {2}
    /\ shipments[2].client = 2

\* The POST in hand fails validation: its claim number is blank, does not
\* start with 'S' or is that of another stored claim, or its client name
\* (a required field) is missing
C13_FailsValidation(r) ==
    \/ r.inst.Claim_No = <<>>
    \/ r.inst.Claim_No[1] # "S"
    \/ \E x \in DOMAIN shipments :
          x # r.inst.pk /\ shipments[x].Claim_No = r.inst.Claim_No
    \/ r.client_name = <<>>

\* C13: a claim submission that fails validation, by add_shipment or by
\* edit_shipment, changes neither the clients nor the claims: from validation
\* the request goes to rendering the form again, and from there it ends,
\* with both tables as they were.
C13_RejectedSubmissionWritesNothing ==
    [][\A w \in Entry.W :
          /\ req[w].pc = "validate" /\ C13_FailsValidation(req[w])
                => /\ req'[w] = [req[w] EXCEPT !.pc = "render"]
                   /\ UNCHANGED <<clients, shipments>>
          /\ req[w].pc = "render"
                => req'[w] = Idle /\ UNCHANGED <<clients, shipments>>]_vars

\* An edit_shipment whose claim number is that of another stored claim has
\* been rejected
C13_Witness ==
    /\ req[1].pc = "render"
    /\ req[1].op = "edit_shipment"
    /\ claim_no_taken(shipments, req[1].inst.Claim_No, req[1].inst.pk)

\* C14: the Claim_No of every stored claim starts with 'S' and is that of no
\* other stored claim, whichever path stored the claim.
C14_ClaimNoUniqueWithPrefix ==
    \A x \in DOMAIN shipments :
        /\ StartsWith(shipments[x].Claim_No, <<"S">>)
        /\ \A y \in DOMAIN shipments :
              shipments[y].Claim_No = shipments[x].Claim_No => y = x

\* The step the import in hand r takes next fails its row: the row has no
\* claimant, or the INSERT meets a stored claim with the same claim number
C15_RowFails(r) ==
    \/ /\ r.pc = "row"
       /\ Head(r.rows).claimant = <<>>
       /\ \/ Head(r.rows).claim_no = <<>>
          \/ \A x \in DOMAIN shipments :
                shipments[x].Claim_No # Head(r.rows).claim_no
    \/ /\ r.pc = "save_write"
       /\ \E x \in DOMAIN shipments : shipments[x].Claim_No = r.inst.Claim_No

\* C15: a row that fails does not abort the import. No step of an import
\* removes or changes a stored claim, so the rows created earlier stay; the
\* step at which a row fails adds that row to the error report, leaves the
\* counts of created and skipped rows alone, and goes on to the next row of
\* the sheet, or to the report when it was the last.
C15_FailingRowDoesNotAbort ==
    [][\A w \in Import.W :
          LET r == req[w]
              q == req'[w]
          IN  r.op = "import" =>
                /\ \A x \in DOMAIN shipments :
                      x \in DOMAIN shipments' /\ shipments'[x] = shipments[x]
                /\ C15_RowFails(r) =>
                      /\ q.op = "import"
                      /\ Len(q.error_entries) = Len(r.error_entries) + 1
                      /\ SubSeq(q.error_entries, 1, Len(r.error_entries))
                            = r.error_entries
                      /\ q.error_entries[Len(q.error_entries)].claimant
                            = Head(r.rows).claimant
                      /\ q.created_entries = r.created_entries
                      /\ q.skipped_entries = r.skipped_entries
                      /\ shipments' = shipments
                      /\ q.unread = r.unread
                      /\ q.pc = IF r.unread > 0 THEN "iter_rows" ELSE "report"]_vars

\* The first row of a sheet of three was stored and is there, the second
\* failed, and the third has come as far as its INSERT
C15_Witness ==
    /\ req[1].op = "import"
    /\ req[1].pc = "save_write"
    /\ req[1].unread = 0
    /\ req[1].created_entries = 1
    /\ Len(req[1].error_entries) = 1
    /\ req[1].skipped_entries = <<>>
    /\ nextShipmentPk = 2
    /\ DOMAIN shipments = {1}

\* The cell holds text that is a date in neither of the two formats
C16_InvalidDateString(cell) ==
    /\ cell.type = "str"
    /\ strptime_raises(cell.value, "%Y-%m-%d")
    /\ strptime_raises(cell.value, "%d/%m/%Y")

\* The row carries a claim number and a claim with that number is stored
C16_Duplicate(row) ==
    /\ row.claim_no # <<>>
    /\ \E x \in DOMAIN shipments : shipments[x].Claim_No = row.claim_no

\* C16: a row whose date cell holds an invalid date string is counted as
\* errored, and a row whose claim number is already stored is skipped, so a
\* sheet with one of each among otherwise valid rows gives one error, one
\* skip and a claim for every other row. Row by row: the step that skips a
\* duplicate adds its number to skipped_entries and nothing else; the step
\* that ends the processing of an invalid-date row adds one entry to
\* error_entries, and stores and counts no claim.
C16_InvalidDateErrsDuplicateSkips ==
    [][\A w \in Import.W :
          LET r == req[w]
              q == req'[w]
              row == Head(r.rows)
          IN  r.op = "import" /\ r.rows # <<>> =>
                /\ r.pc = "row" /\ C16_Duplicate(row) =>
                      /\ q.skipped_entries = Append(r.skipped_entries, row.claim_no)
                      /\ q.created_entries = r.created_entries
                      /\ q.error_entries = r.error_entries
                      /\ shipments' = shipments
                /\ /\ C16_InvalidDateString(row.intend_date)
                   /\ ~(r.pc = "row" /\ C16_Duplicate(row))
                   /\ q.rows # r.rows
                   => /\ Len(q.error_entries) = Len(r.error_entries) + 1
                      /\ q.created_entries = r.created_entries
                      /\ q.skipped_entries = r.skipped_entries
                      /\ shipments' = shipments]_vars

\* C17: the import creates no duplicates. No two stored claims carry the
\* same claim number, and a row whose claim number is that of a stored claim,
\* stored before the import or by an earlier row of the sheet, creates
\* nothing and is listed among the skipped rows.
C17_DuplicateRowsAreSkipped ==
    [][\A w \in Import.W :
          LET r == req[w]
              q == req'[w]
          IN  /\ \A x, y \in DOMAIN shipments' :
                    shipments'[x].Claim_No = shipments'[y].Claim_No => x = y
              /\ /\ r.op = "import" /\ r.pc = "row"
                 /\ \E x \in DOMAIN shipments :
                        shipments[x].Claim_No = Head(r.rows).claim_no
                 => /\ q.skipped_entries =
                          Append(r.skipped_entries, Head(r.rows).claim_no)
                    /\ q.created_entries = r.created_entries
                    /\ q.error_entries = r.error_entries
                    /\ UNCHANGED <<clients, shipments>>]_vars

\* C18: every monetary input of every stored claim (Claimed_Amount and the
\* three amounts paid) is unset or not below zero, whichever path wrote it.
C18_AmountsNotNegative ==
    \A x \in DOMAIN shipments :
        \A amount \in {shipments[x].Claimed_Amount,
                        shipments[x].Amount_Paid_By_Carrier,
                        shipments[x].Amount_Paid_By_Awa,
                        shipments[x].Amount_Paid_By_Insurance} :
            amount = None \/ amount[1] >= 0

\* C19: the backup timer never runs concurrently with itself: however the
\* calls of start_backup_thread interleave, at most one weekly_backup_thread
\* is alive.
C19_AtMostOneBackupThread ==
    Cardinality({t \in DOMAIN backup.threads : is_alive(backup, t)}) <= 1

\* C20: a scheduled backup cycle runs only when at least seven days have
\* passed since the timestamp in the marker file, and it does run at the
\* first wake-up at which they have: the step at which a thread makes its
\* test goes on to the exports exactly when the file's timestamp is seven
\* days old or older (or there is no file), also after a restart and after
\* another operation has rewritten the file.
C20_CycleRunsWhenMarkerIsAWeekOld ==
    [][\A t \in DOMAIN backup.threads :
          /\ backup.threads[t].pc = "check"
          /\ t \in DOMAIN backup'.threads
          /\ backup'.threads[t].pc # "check"
          => (backup'.threads[t].pc = "export_to_excel"
                <=> \/ backup.marker = None
                    \/ today - backup.marker[1] >= BACKUP_DAYS)]_vars

\* Thread t takes a step in which one of its three exports raises
C21_ExportRaises(t) ==
    /\ backup.threads[t].pc \in {"export_to_excel", "export_to_csv", "export_to_pdf"}
    /\ t \in DOMAIN backup'.threads
    /\ backup'.threads[t].pc = "sleep"

\* Thread t takes a step in which the write of the marker file raises
C21_MarkerWriteRaises(t) ==
    /\ backup.threads[t].pc = "write_marker"
    /\ t \in DOMAIN backup'.threads
    /\ backup'.threads[t].pc = "sleep"
    /\ backup.marker # backup.last_backup_date
    /\ backup'.marker = backup.marker

\* After the step a test made now finds the backup due
C21_DueAfter ==
    \/ backup'.last_backup_date = None
    \/ today' - backup'.last_backup_date[1] >= BACKUP_DAYS

C22_MarkerWrittenBySuccessfulCycleOnly ==
    [][backup'.marker # backup.marker =>
          \E t \in DOMAIN backup.threads :
              /\ backup.threads[t].pc = "write_marker"
              /\ t \in DOMAIN backup'.threads
              /\ backup'.threads[t].pc = "sleep"
              /\ backup'.marker = <<backup.threads[t].current_time>>]_vars

\* C23: in every state the reference get_next_client_reference chooses for a
\* client is carried by no stored claim of that client: the number the scan
\* returns is one more than the largest number among the client's references
\* of the day.
C23_NextReferenceIsUnused ==
    \A c \in DOMAIN clients :
        \A x \in DOMAIN shipments :
            shipments[x].client = c =>
                shipments[x].client_reference
                    # get_next_client_reference(shipments, c, clients[c].name, today)

\* The claim's total paid is zero, or its Claimed_Amount is unset or zero
C24_NothingToDerive(row) ==
    \/ OrZero(row.Claimed_Amount) = 0
    \/ OrZero(row.Amount_Paid_By_Carrier) + OrZero(row.Amount_Paid_By_Awa)
           + OrZero(row.Amount_Paid_By_Insurance) = 0

\* C24: a save of a claim whose total paid is zero, or whose Claimed_Amount is
\* unset or zero, leaves Settlement_Status as it was: an edit keeps the stored
\* status (SETTLED stays SETTLED after an edit to zero payments), and a claim
\* created without a status has none.
C24_SaveKeepsStatus ==
    [][\A pk \in DOMAIN shipments' :
           C24_NothingToDerive(shipments'[pk]) =>
               IF pk \in DOMAIN shipments
               THEN shipments'[pk].Settlement_Status = shipments[pk].Settlement_Status
               ELSE shipments'[pk].Settlement_Status \in Money.settlements]_vars

\* A claim that was paid in full, and so SETTLED with savings of 0, after an
\* edit that set its three payments to zero
C24_Witness ==
    \E pk \in DOMAIN shipments :
        /\ shipments[pk].Claimed_Amount = <<2>>
        /\ shipments[pk].Amount_Paid_By_Carrier = <<0>>
        /\ shipments[pk].Amount_Paid_By_Awa = <<0>>
        /\ shipments[pk].Amount_Paid_By_Insurance = <<0>>
        /\ shipments[pk].Total_Savings = <<0>>
        /\ shipments[pk].Settlement_Status = "SETTLED"

\* No two clients of cl share a client_id, no two claims of sh share a claim_id
\* or a claim number
C25_Unique(cl, sh) ==
    /\ \A x, y \in DOMAIN cl : x # y => cl[x].client_id # cl[y].client_id
    /\ \A x, y \in DOMAIN sh :
          x # y => /\ sh[x].claim_id # sh[y].claim_id
                   /\ sh[x].Claim_No # sh[y].Claim_No

\* Worker w is at an INSERT with an identifier that another writer has stored
\* since w computed it
C25_LostTheRace(w) ==
    \/ /\ req[w].pc = "client_insert"
       /\ \E pk \in DOMAIN clients : clients[pk].client_id = req[w].new_id
    \/ /\ req[w].pc = "save_write"
       /\ req[w].inst.pk = 0
       /\ \E pk \in DOMAIN shipments :
              \/ shipments[pk].claim_id = req[w].inst.claim_id
              \/ shipments[pk].Claim_No = req[w].inst.Claim_No

\* C25: in every interleaving of concurrent creations no two stored clients
\* share a client_id and no two stored claims share a claim_id or a claim
\* number; a writer whose identifier another writer has stored first fails at
\* its INSERT and stores no row: its request ends there, or its get_or_create
\* goes on to look the client up again.
C25_OneInsertPerIdentifier ==
    [][/\ C25_Unique(clients', shipments')
       /\ \A w \in Workers :
              C25_LostTheRace(w) /\ req'[w] # req[w]
                  => /\ clients' = clients
                     /\ shipments' = shipments
                     /\ req'[w] = Idle \/ req'[w].pc = "goc_retry"]_vars

\* A claim is stored, and another writer stands at its INSERT with the
\* claim_id of that claim and a claim number of its own
C25_Witness ==
    \E w \in Workers, pk \in DOMAIN shipments :
        /\ req[w].pc = "save_write"
        /\ req[w].inst.pk = 0
        /\ shipments[pk].claim_id = req[w].inst.claim_id
        /\ shipments[pk].Claim_No # req[w].inst.Claim_No

\* C26: when clients and claims are created and deleted one request after the
\* other, from empty tables, the stored claim with the highest id holds the
\* highest claim_id number, so get_next_claim_id returns a claim_id that no
\* stored claim holds and no creation fails on the uniqueness of claim_id;
\* likewise for clients and client_id.
C26_NewestHoldsHighestNumber ==
    /\ \A pk \in DOMAIN shipments :
          /\ C6_Suffix(shipments[pk].claim_id, 3)
                <= C6_Suffix(shipments[Max(DOMAIN shipments)].claim_id, 3)
          /\ shipments[pk].claim_id # get_next_claim_id(shipments)
    /\ \A pk \in DOMAIN clients :
          /\ C6_Suffix(clients[pk].client_id, 2)
                <= C6_Suffix(clients[Max(DOMAIN clients)].client_id, 2)
          /\ clients[pk].client_id # get_next_client_id(clients)
    /\ \A name \in Recreating.names :
          /\ nextShipmentPk <= MaxShipments
          /\ Cardinality(iexact(clients, name)) <= 1
          /\ iexact(clients, name) = {} => nextClientPk <= MaxShipments
          => nextShipmentPk \in DOMAIN
                 Run(post_add_shipment(World, 1, ClaimNo(nextShipmentPk), name,
                                       <<None, None, None, None>>),
                     1, Recreating).shipments
    /\ \A name \in Recreating.names :
          nextClientPk <= MaxShipments
          => nextClientPk \in DOMAIN
                 Run(post_add_client(World, 1, name), 1, Recreating).clients

\* The second client and the second claim were deleted, and the third client
\* and the third claim hold their numbers
C26_Witness ==
    /\ DOMAIN clients = {1, 3}
    /\ clients[3].client_id = <<"C", "L", "0", "0", "0", "0", "2">>
    /\ DOMAIN shipments = {1, 3}
    /\ shipments[3].claim_id = <<"C", "L", "M", "0", "0", "0", "0", "0", "2">>

\* C27: a claim creation that fails, by the form or as a row of an import,
\* leaves what is stored as it was: a request that has added no claim has
\* added no client either, also when the claimant named no stored client.
C27_FailedCreationStoresNothing ==
    [][shipments' = shipments => clients' = clients]_vars

\* C28: a claim creation, by the form or by the import, never adds a Client
\* whose name equals that of a stored client but for case: of two concurrent
\* creations naming the same new client at most one stores a Client of that
\* name, in every interleaving.
C28_ClaimCreationAddsNoSecondClient ==
    [][\A w \in Workers :
           /\ req[w].op \in {"add_shipment", "import"}
           /\ req[w].pc = "client_insert"
           /\ req'[w] # req[w]
           /\ DOMAIN clients' # DOMAIN clients
           => iexact(clients, req[w].client_name) = {}]_vars

\* The rows an import has put in one of its three categories
C29_Sorted(r) == r.created_entries + Len(r.skipped_entries) + Len(r.error_entries)

\* The rows an import has still to sort: the one in hand and those not read
C29_Pending(r) == r.unread + Len(r.rows)

\* C29: process_excel_data puts every data row in exactly one of created,
\* skipped and errored: it starts with none sorted, every step that ends a row
\* adds one to created_entries + len(skipped_entries) + len(error_entries) and
\* no other step changes that sum, so the sum is the number of data rows when
\* the lists are returned; and the stored claims grow by created_entries.
C29_EveryRowInOneCategory ==
    [][\A w \in Import.W :
           /\ req[w].op = "idle" /\ req'[w].op = "import"
                 => C29_Sorted(req'[w]) = 0
           /\ req[w].op = "import" /\ req'[w].op = "import"
                 => /\ C29_Sorted(req'[w]) + C29_Pending(req'[w])
                          = C29_Sorted(req[w]) + C29_Pending(req[w])
                    /\ C29_Sorted(req'[w]) \in {C29_Sorted(req[w]), C29_Sorted(req[w]) + 1}
                    /\ Cardinality(DOMAIN shipments') - Cardinality(DOMAIN shipments)
                          = req'[w].created_entries - req[w].created_entries
                    /\ DOMAIN shipments \subseteq DOMAIN shipments']_vars

\* An import of three data rows returns its lists: one row was stored, one
\* skipped and one failed
C29_Witness ==
    \E w \in Import.W :
        /\ req[w].pc = "report"
        /\ req[w].created_entries = 1
        /\ Len(req[w].skipped_entries) = 1
        /\ Len(req[w].error_entries) = 1
        /\ Cardinality(DOMAIN shipments) = 1

\* C30: with amounts that are unset or not negative Shipment.save never derives
\* NOT_SETTLED: a stored claim that is NOT_SETTLED was given that status by the
\* import's settlement column when it was created, has kept it through every
\* save since, and at each of them its total paid was zero or its
\* Claimed_Amount unset or zero.
C30_NotSettledIsNeverDerived ==
    [][\A pk \in DOMAIN shipments' :
           shipments'[pk].Settlement_Status = "NOT_SETTLED"
               => /\ OrZero(shipments'[pk].Claimed_Amount) = 0
                     \/ total_amount_paid(shipments'[pk]) = 0
                  /\ pk \in DOMAIN shipments
                        => shipments[pk].Settlement_Status = "NOT_SETTLED"]_vars

\* A claim the import stored as NOT_SETTLED, after an edit that left its value
\* unset (the import stores 0 for an empty cell) and entered a payment
C30_Witness ==
    \E pk \in DOMAIN shipments :
        /\ shipments[pk].Settlement_Status = "NOT_SETTLED"
        /\ shipments[pk].Claimed_Amount = None
        /\ shipments[pk].Amount_Paid_By_Awa = <<1>>

====
